---- MODULE Spec2Model ----
(***************************************************************************)
(* Model of the crawl-and-progress subsystem of bandcamp_recommendations:  *)
(* the SQL store, the collection worker, the item worker, the forced user  *)
(* fetch, the progress manager and the recommender.                        *)
(***************************************************************************)
EXTENDS Integers, Sequences, FiniteSets, TLC

\* ------------------------------------------------------------------ bounds
NFans == 3
PageSize == 2
NStoreFans == 2
NStoreItems == 1
MaxInserts == 2
NRecFans == 4
NRecItems == 5
MaxBoost == 2
\* the number of recommendations that get_user_recommendations keeps: take(50)
\* in analyze.rs, scaled down to the items of the recommender's universe
TakeCount == 2

\* ------------------------------------------------------- program constants
STAGE_1_PER_ITEM == 2
STAGE_2_PER_ITEM == 3

\* ------------------------------------------------------------ the universe
NItems == PageSize + 1
Fans == 1..NFans
Items == 1..NItems
USERNAMES == <<"alice", "bob", "carol", "dave", "erin", "frank">>
Names == {USERNAMES[f] : f \in Fans}

\* the usernames that HTTP requests of this run ask for
RequestNames == {USERNAMES[1]}

\* SQL NULL / Rust None for integer-valued columns and fields
NULL == 0 - 1

\* the wall clock: unixepoch('now') of the run
T0 == 19676 * 86400

Max(a, b) == IF a > b THEN a ELSE b

RECURSIVE SetToSortedSeq(_)
SetToSortedSeq(S) ==
    IF S = {} THEN <<>>
    ELSE LET m == CHOOSE x \in S : \A y \in S : x <= y
         IN <<m>> \o SetToSortedSeq(S \ {m})

\* --------------------------------------------------------------- the remote
\* The remote service.  Fan f collects the items f..NItems; entries are listed
\* newest first and the token of an entry is its age rank, so that "older
\* than token t" is "token < t".  Fan 2 bought every item as a track inside
\* the album, so its entries carry album_id.  The oldest item has a
\* custom-domain URL.
RemoteOwns(f, i) == f <= i /\ i <= NItems

RemoteFanId(name) == CHOOSE f \in Fans : USERNAMES[f] = name

\* item_url of an item: scheme, first host label (as characters) and the
\* text that follows the label
RemoteUrl(i) ==
    IF i = 1
    THEN [scheme |-> "https", label |-> <<"e", "x", "a", "m", "p", "l", "e">>,
          after_label |-> ".com/foo"]
    ELSE [scheme |-> "https", label |-> <<"a", "r", "t", "-", "1">>,
          after_label |-> ".bandcamp.com/album/x"]

RemoteEntry(f, i) ==
    IF f = 2
    THEN [item_id |-> NItems + i, album_id |-> i, token |-> i, item_url |-> RemoteUrl(i)]
    ELSE [item_id |-> i, album_id |-> NULL, token |-> i, item_url |-> RemoteUrl(i)]

\* all entries of fan f with token < t, newest first
RECURSIVE RemoteEntriesOlderThan(_, _)
RemoteEntriesOlderThan(f, t) ==
    IF t <= 1 THEN <<>>
    ELSE IF RemoteOwns(f, t - 1)
         THEN <<RemoteEntry(f, t - 1)>> \o RemoteEntriesOlderThan(f, t - 1)
         ELSE RemoteEntriesOlderThan(f, t - 1)

RemoteCollection(f) == RemoteEntriesOlderThan(f, NItems + 1)

Prefix(s, n) == SubSeq(s, 1, IF Len(s) < n THEN Len(s) ELSE n)

\* all collectors of item i with token < t, newest first
RECURSIVE RemoteThumbsOlderThan(_, _)
RemoteThumbsOlderThan(i, t) ==
    IF t <= 1 THEN <<>>
    ELSE IF RemoteOwns(t - 1, i)
         THEN <<[fan_id |-> t - 1, username |-> USERNAMES[t - 1], token |-> t - 1]>>
              \o RemoteThumbsOlderThan(i, t - 1)
         ELSE RemoteThumbsOlderThan(i, t - 1)

RemoteThumbs(i) == RemoteThumbsOlderThan(i, NFans + 1)

\* ---------------------------------------------------------------- the store
NoCollector == [present |-> FALSE, username |-> "", token |-> NULL, last_updated |-> 0]
NoItem == [present |-> FALSE, item_url |-> RemoteUrl(NItems), token |-> NULL, last_updated |-> 0]
NoTarget == [present |-> FALSE, stage |-> 0, count_left |-> 0, count_total |-> 0, eta |-> 0]

EmptyDb ==
    [collector |-> [f \in Fans |-> NoCollector],
     item |-> [i \in Items |-> NoItem],
     collects |-> {},
     collected_by |-> {},
     cqueue |-> {},
     iqueue |-> {},
     target |-> [f \in Fans |-> NoTarget]]

\* unixepoch(v, '30 days'): SQLite reads a bare number as a Julian day number.
\* The result is <<>> (NULL) outside the valid Julian range, else <<d>> where
\* the value in seconds is d * 86400 + 43200.
Unixepoch30Days(v) ==
    IF v < 0 \/ v > 5373454 THEN <<>> ELSE <<v - 2440588 + 30>>

\* unixepoch('now') > unixepoch(last_updated, '30 days'); NULL counts as false
SqlStale(now_, last_updated) ==
    LET u == Unixepoch30Days(last_updated)
    IN u # <<>> /\ (now_ - 43201) \div 86400 >= u[1]

\* unixepoch('now') - unixepoch(last_updated, '30 days') read as i64 and < 0
SqlRecent(now_, last_updated) ==
    LET u == Unixepoch30Days(last_updated)
    IN u # <<>> /\ (now_ - 43200) \div 86400 < u[1]

get_fan_id_for_username(d, name) ==
    LET S == {f \in DOMAIN d.collector :
                 d.collector[f].present /\ d.collector[f].username = name}
    IN IF S = {} THEN NULL ELSE CHOOSE f \in S : TRUE

collector_present_and_recent(d, now_, name) ==
    LET f == get_fan_id_for_username(d, name)
    IN f # NULL /\ SqlRecent(now_, d.collector[f].last_updated)

item_present_and_recent(d, now_, item_id) ==
    d.item[item_id].present /\ SqlRecent(now_, d.item[item_id].last_updated)

\* ---------------------------------------------------------- progress manager
get_stage_1_requirements(d, now_, fan_id) ==
    {i \in Items : <<fan_id, i>> \in d.collects
                   /\ d.item[i].present
                   /\ SqlStale(now_, d.item[i].last_updated)}

get_stage_2_requirements(d, now_, fan_id) ==
    {f \in Fans :
        /\ d.collector[f].present
        /\ SqlStale(now_, d.collector[f].last_updated)
        /\ Cardinality({i \in Items : <<i, f>> \in d.collected_by
                                      /\ <<fan_id, i>> \in d.collects}) > 1}

\* mutant: the upsert overwrites count_total
insert_target_overwrite(d, fan_id, stage, count_left, count_total, eta) ==
    [d EXCEPT !.target[fan_id] =
        [present |-> TRUE, stage |-> stage, count_left |-> count_left,
         count_total |-> count_total, eta |-> eta]]

insert_target(d, fan_id, stage, count_left, count_total, eta) ==
    LET old == d.target[fan_id]
        new == [present |-> TRUE,
                stage |-> stage,
                count_left |-> count_left,
                count_total |-> IF old.present
                                THEN (IF count_total > old.count_total
                                      THEN count_total ELSE old.count_total)
                                ELSE count_total,
                eta |-> eta]
    IN [d EXCEPT !.target[fan_id] = new]

get_target(d, fan_id) ==
    IF d.target[fan_id].present
    THEN d.target[fan_id]
    ELSE [present |-> FALSE, stage |-> 3, count_left |-> 0, count_total |-> 0, eta |-> 0]

delete_target(d, fan_id) == [d EXCEPT !.target[fan_id] = NoTarget]

\* mutant: the target row is kept when nothing is required
handle_stage_2_keep(d, now_, fan_id, old_count) ==
    LET requirements == get_stage_2_requirements(d, now_, fan_id)
        n == Cardinality(requirements)
    IN IF old_count = <<>>
       THEN [insert_target(d, fan_id, 2, n, n, n * STAGE_2_PER_ITEM)
                EXCEPT !.cqueue = @ \cup requirements]
       ELSE insert_target(d, fan_id, 2, n, old_count[1], n * STAGE_2_PER_ITEM)

\* old_count is <<>> for None and <<v>> for Some(v)
handle_stage_2(d, now_, fan_id, old_count) ==
    LET requirements == get_stage_2_requirements(d, now_, fan_id)
        n == Cardinality(requirements)
    IN IF requirements # {}
       THEN LET d1 == insert_target(d, fan_id, 2, n,
                                    IF old_count = <<>> THEN n ELSE old_count[1],
                                    n * STAGE_2_PER_ITEM)
            IN IF old_count = <<>>
               THEN [d1 EXCEPT !.cqueue = @ \cup requirements]
               ELSE d1
       ELSE delete_target(d, fan_id)

\* mutant: every update enqueues the requirements again
handle_stage_1_enqueue_again(d, now_, fan_id, old_count) ==
    LET requirements == get_stage_1_requirements(d, now_, fan_id)
        n == Cardinality(requirements)
    IN IF requirements # {}
       THEN [insert_target(d, fan_id, 1, n,
                           IF old_count = <<>> THEN n ELSE old_count[1],
                           n * STAGE_1_PER_ITEM)
                EXCEPT !.iqueue = @ \cup requirements]
       ELSE handle_stage_2(d, now_, fan_id, <<>>)

\* mutant: the items are enqueued into the wrong queue
handle_stage_1_wrong_queue(d, now_, fan_id, old_count) ==
    LET requirements == get_stage_1_requirements(d, now_, fan_id)
        n == Cardinality(requirements)
    IN IF requirements # {}
       THEN LET d1 == insert_target(d, fan_id, 1, n,
                                    IF old_count = <<>> THEN n ELSE old_count[1],
                                    n * STAGE_1_PER_ITEM)
            IN IF old_count = <<>>
               THEN [d1 EXCEPT !.cqueue = @ \cup requirements]
               ELSE d1
       ELSE handle_stage_2(d, now_, fan_id, <<>>)

\* mutant: stage 2 is planned without looking at stage 1
handle_stage_1_skip(d, now_, fan_id, old_count) ==
    handle_stage_2(d, now_, fan_id, <<>>)

handle_stage_1(d, now_, fan_id, old_count) ==
    LET requirements == get_stage_1_requirements(d, now_, fan_id)
        n == Cardinality(requirements)
    IN IF requirements # {}
       THEN LET d1 == insert_target(d, fan_id, 1, n,
                                    IF old_count = <<>> THEN n ELSE old_count[1],
                                    n * STAGE_1_PER_ITEM)
            IN IF old_count = <<>>
               THEN [d1 EXCEPT !.iqueue = @ \cup requirements]
               ELSE d1
       ELSE handle_stage_2(d, now_, fan_id, <<>>)

\* the store after add_target; the returned Target is get_target of it
add_target(d, now_, fan_id) == handle_stage_1(d, now_, fan_id, <<>>)

\* mutant: a stage-2 target is updated through the stage-1 check
update_target_recheck(d, now_, fan_id) ==
    LET target_ == get_target(d, fan_id)
    IN IF target_.stage \in {1, 2}
       THEN handle_stage_1(d, now_, fan_id, <<target_.count_total>>)
       ELSE d

update_target(d, now_, fan_id) ==
    LET target_ == get_target(d, fan_id)
    IN IF target_.stage = 1
       THEN handle_stage_1(d, now_, fan_id, <<target_.count_total>>)
       ELSE IF target_.stage = 2
            THEN handle_stage_2(d, now_, fan_id, <<target_.count_total>>)
            ELSE d

get_targets(d) == SetToSortedSeq({f \in Fans : d.target[f].present})

\* ------------------------------------------------------------ collector side
\* mutant: the upsert replaces the row
add_collector_replace(d, c) ==
    [d EXCEPT !.collector[c.fan_id] =
        [present |-> TRUE, username |-> c.username,
         token |-> c.token, last_updated |-> 0]]

add_collector(d, c) ==
    LET old == d.collector[c.fan_id]
    IN IF old.present
       THEN [d EXCEPT !.collector[c.fan_id].token =
                          IF old.token = NULL THEN c.token ELSE old.token]
       ELSE [d EXCEPT !.collector[c.fan_id] =
                          [present |-> TRUE, username |-> c.username,
                           token |-> c.token, last_updated |-> 0]]

\* mutant: the edge is inserted without the upsert of the item
add_item_for_collector_edge_only(d, fan_id, entry) ==
    LET item_id == IF entry.album_id # NULL THEN entry.album_id ELSE entry.item_id
    IN [db |-> [d EXCEPT !.collects = @ \cup {<<fan_id, item_id>>}],
        res |-> <<fan_id, item_id>> \in d.collects]

\* the store after the call, and the returned flag (TRUE: the edge was present)
add_item_for_collector(d, fan_id, entry) ==
    LET item_id == IF entry.album_id # NULL THEN entry.album_id ELSE entry.item_id
        old == d.item[item_id]
        d1 == IF old.present
              THEN [d EXCEPT !.item[item_id].token =
                                 IF old.token = NULL THEN entry.token ELSE old.token]
              ELSE [d EXCEPT !.item[item_id] =
                                 [present |-> TRUE, item_url |-> entry.item_url,
                                  token |-> entry.token, last_updated |-> 0]]
    IN [db |-> [d1 EXCEPT !.collects = @ \cup {<<fan_id, item_id>>}],
        res |-> <<fan_id, item_id>> \in d.collects]

\* the loop "for entry in items { done = add_item_for_collector(..); last_token = .. }"
RECURSIVE CollectionLoop(_, _, _, _, _)
CollectionLoop(d, fan_id, entries, done, last_token) ==
    IF entries = <<>>
    THEN [db |-> d, done |-> done, last_token |-> last_token]
    ELSE LET r == add_item_for_collector(d, fan_id, Head(entries))
         IN CollectionLoop(r.db, fan_id, Tail(entries), r.res, Head(entries).token)

\* the embedded page of GET /<name>, as decoded from the data-blob
RemoteInitialResult(name) ==
    LET f == RemoteFanId(name)
        all == RemoteCollection(f)
        shown == Prefix(all, PageSize)
    IN [fan_data |-> [fan_id |-> f, username |-> name, token |-> NULL],
        item_count |-> Len(all),
        batch_size |-> PageSize,
        last_token |-> IF shown = <<>> THEN NULL ELSE shown[Len(shown)].token,
        collection |-> shown]

\* the blocking part of collectors::get_initial_page on the decoded data-blob
\* result; order is the iteration order of the item_cache map.  last_token =
\* NULL is None.
collection_initial_page(d, result, order) ==
    LET d1 == add_collector(d, result.fan_data)
        entries == [k \in 1..Len(result.collection) |-> result.collection[order[k]]]
        r == CollectionLoop(d1, result.fan_data.fan_id, entries, FALSE, NULL)
        more_available == ~r.done /\ result.item_count > result.batch_size
    IN [db |-> r.db,
        fan_id |-> result.fan_data.fan_id,
        last_token |-> IF more_available THEN result.last_token ELSE NULL]

\* the response of POST collection_items {fan_id, older_than_token}
RemoteCollectionResult(fan_id, older_than_token) ==
    LET older == RemoteEntriesOlderThan(fan_id, older_than_token)
    IN [items |-> Prefix(older, PageSize), more_available |-> Len(older) > PageSize]

\* the blocking part of collectors::get_next_page on the decoded response;
\* next = NULL is Ok(None)
collection_next_page(d, fan_id, last_token, collection_result) ==
    LET r == CollectionLoop(d, fan_id, collection_result.items, FALSE, last_token)
    IN [db |-> r.db,
        next |-> IF r.done \/ ~collection_result.more_available
                 THEN NULL ELSE r.last_token]

\* <<>> is None, <<username>> is Some(username)
get_next_collector(d, now_, crawl_) ==
    LET queued == {f \in d.cqueue : d.collector[f].present}
        unfinished == {f \in Fans : d.collector[f].present
                                    /\ SqlStale(now_, d.collector[f].last_updated)}
    IN IF queued # {}
       THEN <<d.collector[CHOOSE f \in queued : \A g \in queued : f <= g].username>>
       ELSE IF crawl_ /\ unfinished # {}
            THEN <<d.collector[CHOOSE f \in unfinished :
                                   \A g \in unfinished : f <= g].username>>
            ELSE <<>>

\* mutant: the collector is not marked
mark_collector_done_never(d, now_, name) == d

mark_collector_done(d, now_, name) ==
    [d EXCEPT !.collector = [f \in Fans |->
        IF @[f].present /\ @[f].username = name
        THEN [@[f] EXCEPT !.last_updated = now_] ELSE @[f]]]

collector_remove_from_queue(d, collector) ==
    LET f == get_fan_id_for_username(d, collector)
    IN [d EXCEPT !.cqueue = @ \ {f}]

\* mutant: the rollback deletes nothing
remove_collects_none(d, name) == d

remove_collects(d, name) ==
    LET f == get_fan_id_for_username(d, name)
    IN [d EXCEPT !.collects = {e \in @ : e[1] # f}]

\* ----------------------------------------------------------------- item side
\* mutant: every insert reports a new edge
add_collector_for_item_always_new(d, item_id, collector) ==
    LET d1 == add_collector(d, collector)
    IN [db |-> [d1 EXCEPT !.collected_by = @ \cup {<<item_id, collector.fan_id>>}],
        res |-> FALSE]

add_collector_for_item(d, item_id, collector) ==
    LET d1 == add_collector(d, collector)
    IN [db |-> [d1 EXCEPT !.collected_by = @ \cup {<<item_id, collector.fan_id>>}],
        res |-> <<item_id, collector.fan_id>> \in d.collected_by]

\* mutant: the item paginator takes the report of the last insert only
RECURSIVE CollectorsLoop_last(_, _, _, _, _)
CollectorsLoop_last(d, item_id, thumbs, done, token) ==
    IF thumbs = <<>>
    THEN [db |-> d, done |-> done, token |-> token]
    ELSE LET r == add_collector_for_item(d, item_id, Head(thumbs))
         IN CollectorsLoop_last(r.db, item_id, Tail(thumbs), r.res,
                                IF Head(thumbs).token # NULL THEN Head(thumbs).token
                                ELSE token)

\* the loop "for collector in thumbs { done = add_collector_for_item(..) || done; .. }"
RECURSIVE CollectorsLoop(_, _, _, _, _)
CollectorsLoop(d, item_id, thumbs, done, token) ==
    IF thumbs = <<>>
    THEN [db |-> d, done |-> done, token |-> token]
    ELSE LET r == add_collector_for_item(d, item_id, Head(thumbs))
         IN CollectorsLoop(r.db, item_id, Tail(thumbs), r.res \/ done,
                           IF Head(thumbs).token # NULL THEN Head(thumbs).token ELSE token)

LabelChars ==
    {"a", "b", "c", "d", "e", "f", "g", "h", "i", "j", "k", "l", "m", "n", "o", "p",
     "q", "r", "s", "t", "u", "v", "w", "x", "y", "z",
     "0", "1", "2", "3", "4", "5", "6", "7", "8", "9", "-"}

\* mutant: every URL is taken for a Bandcamp URL
BANDCAMP_REGEX_any(url) == TRUE

\* ^https?://[a-z0-9-]+\.bandcamp\.com
BANDCAMP_REGEX(url) ==
    /\ url.scheme \in {"http", "https"}
    /\ url.label # <<>>
    /\ \A k \in 1..Len(url.label) : url.label[k] \in LabelChars
    /\ url.after_label \in {".bandcamp.com", ".bandcamp.com/album/x"}

\* the collectors-data blob of GET <item_url>
RemoteCollectorsData(item_id) ==
    LET all == RemoteThumbs(item_id)
    IN [thumbs |-> Prefix(all, PageSize), more_thumbs_available |-> Len(all) > PageSize]

\* the blocking part of items::get_initial_page on the decoded collectors-data
\* blob, up to the decision to paginate; the token "" is NULL
item_initial_page(d, item_id, collectors) ==
    LET r == CollectorsLoop(d, item_id, collectors.thumbs, FALSE, NULL)
    IN [db |-> r.db,
        more |-> ~r.done /\ collectors.more_thumbs_available,
        token |-> r.token]

\* the response of POST thumbs {token, tralbum_id}
RemoteCollectorsResult(album_id, token) ==
    LET older == RemoteThumbsOlderThan(album_id, token)
    IN [results |-> Prefix(older, PageSize), more_available |-> Len(older) > PageSize]

\* the blocking part of items::get_next_page on the decoded response; more is
\* Ok(Some(token)), ~more is Ok(None)
item_next_page(d, item_id, token, collectors) ==
    LET r == CollectorsLoop(d, item_id, collectors.results, FALSE, token)
    IN [db |-> r.db,
        more |-> ~r.done /\ collectors.more_available,
        token |-> r.token]

\* mutant: the stale entities are preferred to the queue in crawl mode
get_next_item_stale_first(d, now_, crawl_) ==
    LET unfinished == {i \in Items : d.item[i].present
                                     /\ SqlStale(now_, d.item[i].last_updated)}
    IN IF crawl_ /\ unfinished # {}
       THEN <<CHOOSE i \in unfinished : \A j \in unfinished : i <= j>>
       ELSE IF d.iqueue # {}
            THEN <<CHOOSE i \in d.iqueue : \A j \in d.iqueue : i <= j>>
            ELSE <<>>

\* <<>> is None, <<item_id>> is Some(item_id)
get_next_item(d, now_, crawl_) ==
    LET unfinished == {i \in Items : d.item[i].present
                                     /\ SqlStale(now_, d.item[i].last_updated)}
    IN IF d.iqueue # {}
       THEN <<CHOOSE i \in d.iqueue : \A j \in d.iqueue : i <= j>>
       ELSE IF crawl_ /\ unfinished # {}
            THEN <<CHOOSE i \in unfinished : \A j \in unfinished : i <= j>>
            ELSE <<>>

mark_item_done(d, now_, item_id) ==
    IF d.item[item_id].present
    THEN [d EXCEPT !.item[item_id].last_updated = now_]
    ELSE d

item_remove_from_queue(d, item_id) == [d EXCEPT !.iqueue = @ \ {item_id}]

remove_collected_by(d, item_id) ==
    [d EXCEPT !.collected_by = {e \in @ : e[1] # item_id}]

\* ------------------------------------------------------------------- state
VARIABLES
    db,      \* the SQL store
    now,     \* unixepoch('now')
    crawl,   \* Args.crawl
    cw,      \* collection_worker: position and collector in flight
    gu,      \* get_user handler: position and user in flight
    iw,      \* item_worker: position and item in flight
    rolled,  \* history: collectors rolled back and not crawled successfully since
    page,    \* history: the last page that a paginator processed
    ret,     \* the last store or recommender call and what it returned
    run_state, \* the AtomicBool that the workers poll
    conn     \* the background tasks that hold a pooled connection while suspended

vars == <<db, now, crawl, cw, gu, iw, rolled, page, ret, run_state, conn>>

\* awaiting the interval timer (workers) or no request in progress (get_user)
IdleFetch == [pc |-> "idle", name |-> "", fan_id |-> NULL, token |-> NULL]

IdleItem == [pc |-> "idle", item_id |-> NULL, token |-> NULL]

\* no call recorded
NoCall == [op |-> "none"]

\* no page recorded
NoPage == [paginator |-> "none"]

Init ==
    /\ db = EmptyDb
    /\ now = T0
    /\ crawl \in BOOLEAN
    /\ cw = IdleFetch
    /\ gu = IdleFetch
    /\ iw = IdleItem
    /\ rolled = {}
    /\ page = NoPage
    /\ ret = NoCall
    /\ run_state = TRUE
    /\ conn = {}

\* the iteration orders of a map with n entries
Orders(n) == IF n = 0 THEN {<<>>} ELSE Permutations(1..n)

\* ------------------------------------------------------- collection_worker
\* Ok(()) arm and NotFoundError arm
CollectorDone(d, name) == collector_remove_from_queue(mark_collector_done(d, now, name), name)

\* top of a tick: get_next_collector, then fetch_collection up to the first request
CWTick ==
    /\ cw.pc = "idle"
    /\ run_state
    /\ LET sel == get_next_collector(db, now, crawl)
       IN /\ sel # <<>>
          /\ IF collector_present_and_recent(db, now, sel[1])
             THEN /\ db' = CollectorDone(db, sel[1])
                  /\ rolled' = rolled \ {get_fan_id_for_username(db, sel[1])}
                  /\ UNCHANGED cw
             ELSE /\ cw' = [IdleFetch EXCEPT !.pc = "initial", !.name = sel[1]]
                  /\ UNCHANGED <<db, rolled>>
    /\ UNCHANGED <<now, crawl, gu, iw, page, ret, run_state>>
    /\ conn' = conn \ {"collection_worker"}

\* a tick on which get_next_collector returns None: the connection taken at
\* the top of the loop body is dropped at the end of the body only, after
\* timer.tick().await
CWTickNone ==
    /\ cw.pc = "idle"
    /\ run_state
    /\ get_next_collector(db, now, crawl) = <<>>
    /\ conn' = conn \cup {"collection_worker"}
    /\ UNCHANGED <<db, now, crawl, cw, gu, iw, rolled, page, ret, run_state>>

CWInitialOk ==
    /\ cw.pc = "initial"
    /\ \E order \in Orders(Len(RemoteInitialResult(cw.name).collection)) :
          LET r == collection_initial_page(db, RemoteInitialResult(cw.name), order)
          IN IF r.last_token # NULL
             THEN /\ db' = r.db
                  /\ cw' = [cw EXCEPT !.pc = "next", !.fan_id = r.fan_id,
                                      !.token = r.last_token]
                  /\ UNCHANGED rolled
             ELSE /\ db' = CollectorDone(r.db, cw.name)
                  /\ cw' = IdleFetch
                  /\ rolled' = rolled \ {r.fan_id}
    /\ UNCHANGED <<now, crawl, gu, iw, page, ret, run_state, conn>>

CWNextOk ==
    /\ cw.pc = "next"
    /\ LET r == collection_next_page(db, cw.fan_id, cw.token,
                                     RemoteCollectionResult(cw.fan_id, cw.token))
       IN IF r.next # NULL
          THEN /\ db' = r.db
               /\ cw' = [cw EXCEPT !.token = r.next]
               /\ UNCHANGED rolled
          ELSE /\ db' = CollectorDone(r.db, cw.name)
               /\ cw' = IdleFetch
               /\ rolled' = rolled \ {cw.fan_id}
    /\ UNCHANGED <<now, crawl, gu, iw, page, ret, run_state, conn>>

\* HTTP 429 on the initial page or on a later page: roll back, then sleep
CWRateLimit ==
    /\ cw.pc \in {"initial", "next"}
    /\ db' = remove_collects(db, cw.name)
    /\ cw' = [IdleFetch EXCEPT !.pc = "sleep", !.name = cw.name]
    /\ rolled' = rolled \cup ({get_fan_id_for_username(db, cw.name)} \ {NULL})
    /\ UNCHANGED <<now, crawl, gu, iw, page, ret, run_state>>
    /\ conn' = conn \cup {"collection_worker"}

\* the 10 seconds are over
CWWake ==
    /\ cw.pc = "sleep"
    /\ cw' = IdleFetch
    /\ UNCHANGED <<db, now, crawl, gu, iw, rolled, page, ret, run_state>>
    /\ conn' = conn \ {"collection_worker"}

\* HTTP 404 on the initial page
CWNotFound ==
    /\ cw.pc = "initial"
    /\ db' = CollectorDone(db, cw.name)
    /\ cw' = IdleFetch
    /\ UNCHANGED <<now, crawl, gu, iw, rolled, page, ret, run_state, conn>>

\* mutant: the Err arm marks the collector done
CWError_marks ==
    /\ cw.pc \in {"initial", "next"}
    /\ db' = CollectorDone(db, cw.name)
    /\ cw' = IdleFetch
    /\ UNCHANGED <<now, crawl, gu, iw, rolled, page, ret, run_state, conn>>

\* network, page or serialization error of a request
CWError ==
    /\ cw.pc \in {"initial", "next"}
    /\ cw' = IdleFetch
    /\ UNCHANGED <<db, now, crawl, gu, iw, rolled, page, ret, run_state, conn>>

\* ---------------------------------------------------------------- get_user
\* fetch_collection(name, force = true) up to the end of the initial page,
\* when the page of name decodes to result and the map iterates in order
GUInitial(name, result, order) ==
    /\ gu.pc = "idle"
    /\ LET r == collection_initial_page(db, result, order)
       IN /\ db' = r.db
          /\ gu' = IF r.last_token # NULL
                   THEN [pc |-> "next", name |-> name, fan_id |-> r.fan_id,
                         token |-> r.last_token]
                   ELSE IdleFetch
    /\ UNCHANGED <<now, crawl, cw, iw, rolled>>

\* one iteration of the while loop of fetch_collection, when the response
\* decodes to collection_result
GUNext(collection_result) ==
    /\ gu.pc = "next"
    /\ LET r == collection_next_page(db, gu.fan_id, gu.token, collection_result)
       IN /\ db' = r.db
          /\ gu' = IF r.next # NULL THEN [gu EXCEPT !.token = r.next] ELSE IdleFetch
    /\ UNCHANGED <<now, crawl, cw, iw, rolled>>

GUInitialOk ==
    /\ \E name \in RequestNames :
       \E order \in Orders(Len(RemoteInitialResult(name).collection)) :
          GUInitial(name, RemoteInitialResult(name), order)
    /\ UNCHANGED <<page, ret, run_state, conn>>

GUNextOk ==
    /\ GUNext(RemoteCollectionResult(gu.fan_id, gu.token))
    /\ UNCHANGED <<page, ret, run_state, conn>>

\* an Err of get_next_page: the handler answers 500 and keeps what was stored
GUError ==
    /\ gu.pc = "next"
    /\ gu' = IdleFetch
    /\ UNCHANGED <<db, now, crawl, cw, iw, rolled, page, ret, run_state, conn>>

\* ------------------------------------------------------------- item_worker
ItemDone(d, item_id) == item_remove_from_queue(mark_item_done(d, now, item_id), item_id)

\* top of a tick: get_next_item, then fetch_track_collectors up to the first
\* request; pc = "initial" or "next" is an HTTP request in flight
IWTick ==
    /\ iw.pc = "idle"
    /\ run_state
    /\ LET sel == get_next_item(db, now, crawl)
       IN /\ sel # <<>>
          /\ IF item_present_and_recent(db, now, sel[1])
             THEN /\ db' = ItemDone(db, sel[1])
                  /\ UNCHANGED iw
             ELSE IF ~db.item[sel[1]].present
             THEN UNCHANGED <<db, iw>>
             ELSE IF ~BANDCAMP_REGEX(db.item[sel[1]].item_url)
             THEN /\ db' = ItemDone(db, sel[1])
                  /\ UNCHANGED iw
             ELSE /\ iw' = [IdleItem EXCEPT !.pc = "initial", !.item_id = sel[1]]
                  /\ UNCHANGED db
    /\ UNCHANGED <<now, crawl, cw, gu, rolled, page, ret, run_state>>
    /\ conn' = conn \ {"item_worker"}

\* a tick on which get_next_item returns None
IWTickNone ==
    /\ iw.pc = "idle"
    /\ run_state
    /\ get_next_item(db, now, crawl) = <<>>
    /\ conn' = conn \cup {"item_worker"}
    /\ UNCHANGED <<db, now, crawl, cw, gu, iw, rolled, page, ret, run_state>>

\* the initial page decodes to collectors and to page properties
IWInitial(collectors) ==
    /\ iw.pc = "initial"
    /\ LET r == item_initial_page(db, iw.item_id, collectors)
       IN IF r.more
          THEN /\ db' = r.db
               /\ iw' = [iw EXCEPT !.pc = "next", !.token = r.token]
          ELSE /\ db' = ItemDone(r.db, iw.item_id)
               /\ iw' = IdleItem
    /\ UNCHANGED <<now, crawl, cw, gu, rolled>>

IWInitialOk ==
    /\ IWInitial(RemoteCollectorsData(iw.item_id))
    /\ UNCHANGED <<page, ret, run_state, conn>>

\* the collectors were inserted, but bc-page-properties is missing or malformed
IWInitialPropsError ==
    /\ iw.pc = "initial"
    /\ LET r == item_initial_page(db, iw.item_id, RemoteCollectorsData(iw.item_id))
       IN /\ r.more
          /\ db' = r.db
          /\ iw' = IdleItem
    /\ UNCHANGED <<now, crawl, cw, gu, rolled, page, ret, run_state, conn>>

\* one iteration of the while loop of fetch_track_collectors, when the
\* response decodes to collectors
IWNext(collectors) ==
    /\ iw.pc = "next"
    /\ LET r == item_next_page(db, iw.item_id, iw.token, collectors)
       IN IF r.more
          THEN /\ db' = r.db
               /\ iw' = [iw EXCEPT !.token = r.token]
          ELSE /\ db' = ItemDone(r.db, iw.item_id)
               /\ iw' = IdleItem
    /\ UNCHANGED <<now, crawl, cw, gu, rolled>>

IWNextOk ==
    /\ IWNext(RemoteCollectorsResult(iw.item_id, iw.token))
    /\ UNCHANGED <<page, ret, run_state, conn>>

\* HTTP 429 on the initial page or on a later page: roll back, then sleep
IWRateLimit ==
    /\ iw.pc \in {"initial", "next"}
    /\ db' = remove_collected_by(db, iw.item_id)
    /\ iw' = [IdleItem EXCEPT !.pc = "sleep", !.item_id = iw.item_id]
    /\ UNCHANGED <<now, crawl, cw, gu, rolled, page, ret, run_state>>
    /\ conn' = conn \cup {"item_worker"}

IWWake ==
    /\ iw.pc = "sleep"
    /\ iw' = IdleItem
    /\ UNCHANGED <<db, now, crawl, cw, gu, rolled, page, ret, run_state>>
    /\ conn' = conn \ {"item_worker"}

\* HTTP 404, or a subscription page
IWNotFound ==
    /\ iw.pc = "initial"
    /\ db' = ItemDone(db, iw.item_id)
    /\ iw' = IdleItem
    /\ UNCHANGED <<now, crawl, cw, gu, rolled, page, ret, run_state, conn>>

\* mutant: a failed crawl of an item is rolled back
IWError_rollback ==
    /\ iw.pc \in {"initial", "next"}
    /\ db' = remove_collected_by(db, iw.item_id)
    /\ iw' = IdleItem
    /\ UNCHANGED <<now, crawl, cw, gu, rolled, page, ret, run_state, conn>>

IWError ==
    /\ iw.pc \in {"initial", "next"}
    /\ iw' = IdleItem
    /\ UNCHANGED <<db, now, crawl, cw, gu, rolled, page, ret, run_state, conn>>

\* -------------------------------------------------------- progress_manager
\* "for target in get_targets() { update_target(target) }"
RECURSIVE UpdateTargets(_, _, _)
UpdateTargets(d, now_, targets) ==
    IF targets = <<>> THEN d
    ELSE UpdateTargets(update_target(d, now_, Head(targets)), now_, Tail(targets))

\* one tick of the loop of progress_manager
PMTick ==
    /\ get_targets(db) # <<>>
    /\ db' = UpdateTargets(db, now, get_targets(db))
    /\ UNCHANGED <<now, crawl, cw, gu, iw, rolled, page, ret, run_state, conn>>

\* --------------------------------------------------------------- get_status
\* the handler for a known username; the response body is get_target(db')
GetStatus(name) ==
    /\ get_fan_id_for_username(db, name) # NULL
    /\ db' = add_target(db, now, get_fan_id_for_username(db, name))
    /\ UNCHANGED <<now, crawl, cw, gu, iw, rolled, page, ret, run_state, conn>>

Next ==
    \/ CWTick \/ CWTickNone \/ CWInitialOk \/ CWNextOk \/ CWRateLimit \/ CWWake
    \/ CWNotFound \/ CWError
    \/ GUInitialOk \/ GUNextOk \/ GUError
    \/ IWTick \/ IWTickNone \/ IWInitialOk \/ IWInitialPropsError \/ IWNextOk
    \/ IWRateLimit \/ IWWake \/ IWNotFound \/ IWError
    \/ PMTick
    \/ \E name \in RequestNames : GetStatus(name)

Spec == Init /\ [][Next]_vars

\* ------------------------------------------------------- stopping the workers
\* the owner of the flag stores false
StopRun ==
    /\ run_state
    /\ run_state' = FALSE
    /\ UNCHANGED <<db, now, crawl, cw, gu, iw, rolled, page, ret, conn>>

\* top of a tick with the flag cleared: collection_worker leaves its loop and
\* returns Ok(()); the supervision loop of main calls unwrap_err() on it,
\* which panics on an Ok value and ends the task
CWReturn ==
    /\ cw.pc = "idle"
    /\ ~run_state
    /\ cw' = [IdleFetch EXCEPT !.pc = "panicked"]
    /\ UNCHANGED <<db, now, crawl, gu, iw, rolled, page, ret, run_state>>
    /\ conn' = conn \ {"collection_worker"}

\* the same for item_worker
IWReturn ==
    /\ iw.pc = "idle"
    /\ ~run_state
    /\ iw' = [IdleItem EXCEPT !.pc = "panicked"]
    /\ UNCHANGED <<db, now, crawl, cw, gu, rolled, page, ret, run_state>>
    /\ conn' = conn \ {"item_worker"}

\* a run in crawl mode: the forced user fetch and the two workers, and the stop
RunInit == Init /\ crawl

RunNext ==
    \/ CWTick \/ CWTickNone \/ CWInitialOk \/ CWNextOk \/ CWRateLimit \/ CWWake
    \/ CWNotFound \/ CWError
    \/ GUInitialOk \/ GUNextOk \/ GUError
    \/ IWTick \/ IWTickNone \/ IWInitialOk \/ IWInitialPropsError \/ IWNextOk
    \/ IWRateLimit \/ IWWake \/ IWNotFound \/ IWError
    \/ StopRun \/ CWReturn \/ IWReturn

SpecRun == RunInit /\ [][RunNext]_vars

\* ------------------------------------------------- pages of an arbitrary remote
\* The forced fetch of the first user and the item worker in crawl mode against
\* a remote that may answer every request with any page: any entries in any
\* order, with or without more pages.  page records, for the page processed
\* last, which of its edges were already stored (in processing order), what
\* the remote said about more pages, and whether the paginator went on.
SeqsNoRepeat(S, n) ==
    {q \in UNION {[1..k -> S] : k \in 0..n} :
        \A a, b \in DOMAIN q : a # b => q[a] # q[b]}

AnyEntries == SeqsNoRepeat({RemoteEntry(1, i) : i \in Items}, PageSize)

AnyInitialResults(name) ==
    {r \in [fan_data : {[fan_id |-> RemoteFanId(name), username |-> name,
                         token |-> NULL]},
            item_count : {PageSize, PageSize + 1},
            batch_size : {PageSize},
            last_token : {NULL} \cup Items,
            collection : AnyEntries] :
        /\ r.last_token = IF r.collection = <<>> THEN NULL
                          ELSE r.collection[Len(r.collection)].token
        /\ r.collection = <<>> => r.item_count = PageSize}

AnyCollectionResults ==
    {[items |-> c, more_available |-> m] : c \in AnyEntries, m \in BOOLEAN}

AnyThumbs ==
    SeqsNoRepeat({[fan_id |-> f, username |-> USERNAMES[f], token |-> f] : f \in Fans},
                 PageSize)

AnyCollectorsData ==
    {[thumbs |-> t, more_thumbs_available |-> m] : t \in AnyThumbs, m \in BOOLEAN}

AnyCollectorsResults ==
    {[results |-> t, more_available |-> m] : t \in AnyThumbs, m \in BOOLEAN}

\* the collects edge that add_item_for_collector inserts for an entry
CollectsEdge(fan_id, entry) ==
    <<fan_id, IF entry.album_id # NULL THEN entry.album_id ELSE entry.item_id>>

PageRecord(paginator, kind, stored, more, continued) ==
    [paginator |-> paginator, kind |-> kind, stored |-> stored, more |-> more,
     continued |-> continued]

PagesGUInitial ==
    \E name \in RequestNames :
    \E result \in AnyInitialResults(name) :
    \E order \in Orders(Len(result.collection)) :
       /\ GUInitial(name, result, order)
       /\ UNCHANGED <<ret, run_state, conn>>
       /\ page' = PageRecord("collection", "initial",
                     [k \in 1..Len(result.collection) |->
                         CollectsEdge(result.fan_data.fan_id, result.collection[order[k]])
                             \in db.collects],
                     result.item_count > result.batch_size,
                     gu'.pc = "next")

PagesGUNext ==
    \E collection_result \in AnyCollectionResults :
       /\ GUNext(collection_result)
       /\ UNCHANGED <<ret, run_state, conn>>
       /\ page' = PageRecord("collection", "next",
                     [k \in 1..Len(collection_result.items) |->
                         CollectsEdge(gu.fan_id, collection_result.items[k])
                             \in db.collects],
                     collection_result.more_available,
                     gu'.pc = "next")

PagesIWInitial ==
    \E collectors \in AnyCollectorsData :
       /\ IWInitial(collectors)
       /\ UNCHANGED <<ret, run_state, conn>>
       /\ page' = PageRecord("item", "initial",
                     [k \in 1..Len(collectors.thumbs) |->
                         <<iw.item_id, collectors.thumbs[k].fan_id>> \in db.collected_by],
                     collectors.more_thumbs_available,
                     iw'.pc = "next")

PagesIWNext ==
    \E collectors \in AnyCollectorsResults :
       /\ IWNext(collectors)
       /\ UNCHANGED <<ret, run_state, conn>>
       /\ page' = PageRecord("item", "next",
                     [k \in 1..Len(collectors.results) |->
                         <<iw.item_id, collectors.results[k].fan_id>> \in db.collected_by],
                     collectors.more_available,
                     iw'.pc = "next")

PagesInit == Init /\ crawl

PagesNext ==
    \/ PagesGUInitial \/ PagesGUNext \/ GUError
    \/ IWTick \/ PagesIWInitial \/ PagesIWNext \/ IWError

SpecPages == PagesInit /\ [][PagesNext]_vars

\* ------------------------------------------------- the store operations alone
\* The insert, upsert, removal and completion statements of the store, called
\* one at a time in any order on a small part of the universe.  ret records
\* the call and, for every edge, how many times it was inserted since the
\* last removal of its side (counted up to MaxInserts).
StoreFans == 1..NStoreFans
StoreItems == 1..NStoreItems
StoreTokens == {NULL} \cup (1..NStoreFans)

StoreCollectors ==
    {[fan_id |-> f, username |-> USERNAMES[f], token |-> t] :
        f \in StoreFans, t \in StoreTokens}

\* an item bought as such, or a track of it bought inside the album
StoreEntries ==
    {[item_id |-> IF track THEN NItems + i ELSE i,
      album_id |-> IF track THEN i ELSE NULL,
      token |-> t, item_url |-> RemoteUrl(i)] :
        i \in StoreItems, t \in StoreTokens, track \in BOOLEAN}

StoreCall(op, fan_id, item_id, token, res, collects_n, collected_by_n) ==
    [op |-> op, fan_id |-> fan_id, item_id |-> item_id, token |-> token,
     res |-> res, collects_n |-> collects_n, collected_by_n |-> collected_by_n]

Counted(n) == IF n < MaxInserts THEN n + 1 ELSE MaxInserts

StoreInit ==
    /\ db = EmptyDb
    /\ now = T0
    /\ crawl = FALSE
    /\ cw = IdleFetch
    /\ gu = IdleFetch
    /\ iw = IdleItem
    /\ rolled = {}
    /\ page = NoPage
    /\ ret = StoreCall("none", NULL, NULL, NULL, FALSE,
                       [e \in StoreFans \X StoreItems |-> 0],
                       [e \in StoreItems \X StoreFans |-> 0])
    /\ run_state = TRUE
    /\ conn = {}

StoreAddCollector(c) ==
    /\ db' = add_collector(db, c)
    /\ ret' = StoreCall("add_collector", c.fan_id, NULL, c.token, FALSE,
                        ret.collects_n, ret.collected_by_n)
    /\ UNCHANGED <<now, crawl, cw, gu, iw, rolled, page, run_state, conn>>

\* the collector row of the fan exists when its collection is stored
StoreAddItem(fan_id, entry) ==
    /\ db.collector[fan_id].present
    /\ LET r == add_item_for_collector(db, fan_id, entry)
           e == CollectsEdge(fan_id, entry)
       IN /\ db' = r.db
          /\ ret' = StoreCall("add_item_for_collector", fan_id, e[2], entry.token, r.res,
                              [ret.collects_n EXCEPT ![e] = Counted(@)],
                              ret.collected_by_n)
    /\ UNCHANGED <<now, crawl, cw, gu, iw, rolled, page, run_state, conn>>

\* the item row exists when its collectors are stored
StoreAddCollectorForItem(item_id, c) ==
    /\ db.item[item_id].present
    /\ LET r == add_collector_for_item(db, item_id, c)
       IN /\ db' = r.db
          /\ ret' = StoreCall("add_collector_for_item", c.fan_id, item_id, c.token, r.res,
                              ret.collects_n,
                              [ret.collected_by_n EXCEPT ![<<item_id, c.fan_id>>] = Counted(@)])
    /\ UNCHANGED <<now, crawl, cw, gu, iw, rolled, page, run_state, conn>>

StoreRemoveCollects(fan_id) ==
    /\ db.collector[fan_id].present
    /\ db' = remove_collects(db, db.collector[fan_id].username)
    /\ ret' = StoreCall("remove_collects", fan_id, NULL, NULL, FALSE,
                        [e \in StoreFans \X StoreItems |->
                            IF e[1] = fan_id THEN 0 ELSE ret.collects_n[e]],
                        ret.collected_by_n)
    /\ UNCHANGED <<now, crawl, cw, gu, iw, rolled, page, run_state, conn>>

StoreRemoveCollectedBy(item_id) ==
    /\ db' = remove_collected_by(db, item_id)
    /\ ret' = StoreCall("remove_collected_by", NULL, item_id, NULL, FALSE,
                        ret.collects_n,
                        [e \in StoreItems \X StoreFans |->
                            IF e[1] = item_id THEN 0 ELSE ret.collected_by_n[e]])
    /\ UNCHANGED <<now, crawl, cw, gu, iw, rolled, page, run_state, conn>>

StoreMarkCollectorDone(fan_id) ==
    /\ db.collector[fan_id].present
    /\ db' = mark_collector_done(db, now, db.collector[fan_id].username)
    /\ ret' = StoreCall("mark_collector_done", fan_id, NULL, NULL, FALSE,
                        ret.collects_n, ret.collected_by_n)
    /\ UNCHANGED <<now, crawl, cw, gu, iw, rolled, page, run_state, conn>>

StoreMarkItemDone(item_id) ==
    /\ db.item[item_id].present
    /\ db' = mark_item_done(db, now, item_id)
    /\ ret' = StoreCall("mark_item_done", NULL, item_id, NULL, FALSE,
                        ret.collects_n, ret.collected_by_n)
    /\ UNCHANGED <<now, crawl, cw, gu, iw, rolled, page, run_state, conn>>

StoreNext ==
    \/ \E c \in StoreCollectors : StoreAddCollector(c)
    \/ \E fan_id \in StoreFans : \E entry \in StoreEntries : StoreAddItem(fan_id, entry)
    \/ \E item_id \in StoreItems : \E c \in StoreCollectors :
          StoreAddCollectorForItem(item_id, c)
    \/ \E fan_id \in StoreFans : StoreRemoveCollects(fan_id)
    \/ \E item_id \in StoreItems : StoreRemoveCollectedBy(item_id)
    \/ \E fan_id \in StoreFans : StoreMarkCollectorDone(fan_id)
    \/ \E item_id \in StoreItems : StoreMarkItemDone(item_id)

SpecStore == StoreInit /\ [][StoreNext]_vars


\* -------------------------------------------------------------- recommender
\* f64::powf for the whole-number boosts of the model
RECURSIVE Pow(_, _)
Pow(s, b) == IF b = 0 THEN 1 ELSE s * Pow(s, b - 1)

\* all items that fan f collects in the store
CollectedItems(d, f) == {e[2] : e \in {x \in d.collects : x[1] = f}}

\* SELECT_RELEVANT_USERS: the fans that hold more than one collects row whose
\* item is collected by the user called name, each with all its items
get_relevant_users(d, name) ==
    LET target_ == get_fan_id_for_username(d, name)
        own == CollectedItems(d, target_)
        fans == {f \in {e[1] : e \in d.collects} :
                    Cardinality({e \in d.collects : e[1] = f /\ e[2] \in own}) > 1}
    IN [f \in fans |-> CollectedItems(d, f)]

\* the sum of mult over the users of fs that add to the entry of item
RECURSIVE SumMult(_, _, _, _, _)
SumMult(fs, users, forbidden, similar_boost, item) ==
    IF fs = {} THEN 0
    ELSE LET f == CHOOSE x \in fs : TRUE
             mult == Pow(Cardinality(users[f] \cap forbidden), similar_boost)
         IN (IF mult > 1 /\ item \in users[f] \ forbidden THEN mult ELSE 0)
            + SumMult(fs \ {f}, users, forbidden, similar_boost, item)

\* mutant: the entry of an item is the mult of the closest user, not the sum
RecCount_max(users, forbidden, similar_boost) ==
    LET mult(f) == Pow(Cardinality(users[f] \cap forbidden), similar_boost)
        scoring == {f \in DOMAIN users : mult(f) > 1}
        touched == UNION {users[f] \ forbidden : f \in scoring}
    IN [i \in touched |->
           LET ms == {mult(f) : f \in {g \in scoring : i \in users[g]}}
           IN CHOOSE m \in ms : \A n \in ms : n <= m]

\* mutant: the items of the target are counted as well
RecCount_all(users, forbidden, similar_boost) ==
    LET scoring == {f \in DOMAIN users :
                       Pow(Cardinality(users[f] \cap forbidden), similar_boost) > 1}
        touched == UNION {users[f] : f \in scoring}
    IN [i \in touched |->
           IF i \in forbidden THEN Cardinality(scoring)
           ELSE SumMult(DOMAIN users, users, forbidden, similar_boost, i)]

\* the map count after the loop over users
RecCount(users, forbidden, similar_boost) ==
    LET scoring == {f \in DOMAIN users :
                       Pow(Cardinality(users[f] \cap forbidden), similar_boost) > 1}
        touched == UNION {users[f] \ forbidden : f \in scoring}
    IN [i \in touched |-> SumMult(DOMAIN users, users, forbidden, similar_boost, i)]

\* mutant: sorted by ascending score
RecSorted_ascending(count) ==
    {p \in SeqsNoRepeat(DOMAIN count, Cardinality(DOMAIN count)) :
        /\ Len(p) = Cardinality(DOMAIN count)
        /\ \A k \in 1..(Len(p) - 1) : count[p[k]] <= count[p[k + 1]]}

\* count.into_iter() in the iteration order of the map, sorted by descending
\* score with an unstable sort: every order of the items with non-increasing
\* scores can come out
RecSorted(count) ==
    {p \in SeqsNoRepeat(DOMAIN count, Cardinality(DOMAIN count)) :
        /\ Len(p) = Cardinality(DOMAIN count)
        /\ \A k \in 1..(Len(p) - 1) : count[p[k]] >= count[p[k + 1]]}

\* the vectors that elements can be after the sort; one empty vector where
\* the function returns or stops before it gets there
RecElements(d, username, similar_boost) ==
    LET fan_id == get_fan_id_for_username(d, username)
        users == get_relevant_users(d, username)
    IN IF fan_id = NULL \/ fan_id \notin DOMAIN users
       THEN {<<>>}
       ELSE RecSorted(RecCount(users, users[fan_id], similar_boost))

\* get_user_recommendations when the sort leaves elements; "panic" is the
\* panic of the index expression users[&fan_id] on a missing key
get_user_recommendations(d, username, similar_boost, elements) ==
    LET fan_id == get_fan_id_for_username(d, username)
        users == get_relevant_users(d, username)
    IN IF fan_id = NULL THEN [kind |-> "NotFoundError", items |-> <<>>]
       ELSE IF fan_id \notin DOMAIN users THEN [kind |-> "panic", items |-> <<>>]
       ELSE LET count == RecCount(users, users[fan_id], similar_boost)
                taken == Prefix(elements, TakeCount)
            IN IF \E k \in DOMAIN taken : ~d.item[taken[k]].present
               THEN [kind |-> "DbResultError", items |-> <<>>]
               ELSE [kind |-> "Ok",
                     items |-> [k \in DOMAIN taken |->
                                   [item_id |-> taken[k], score |-> count[taken[k]]]]]

\* The stores that the recommender is called on.  The requested user is fan 1
\* and collects the items 1..k; the collections of the other fans are any
\* sets of items, listed in ascending order of SetCode, since the recommender
\* does not look at the ids of the other fans.  Every fan and item of an edge
\* has its row; the row of fan 1 may be missing when it collects nothing.
RecFans == 1..NRecFans
RecItems == 1..NRecItems
Boosts == 1..MaxBoost

RECURSIVE SetCode(_)
SetCode(S) ==
    IF S = {} THEN 0
    ELSE LET m == CHOOSE x \in S : \A y \in S : y <= x
         IN Pow(2, m - 1) + SetCode(S \ {m})

RecStore(has_row, collections) ==
    [collector |-> [f \in RecFans |->
                       IF f = 1 /\ ~has_row THEN NoCollector
                       ELSE [present |-> TRUE, username |-> USERNAMES[f],
                             token |-> NULL, last_updated |-> 0]],
     item |-> [i \in RecItems |->
                  [present |-> TRUE, item_url |-> RemoteUrl(NItems),
                   token |-> NULL, last_updated |-> 0]],
     collects |-> {e \in RecFans \X RecItems : e[2] \in collections[e[1]]},
     collected_by |-> {},
     cqueue |-> {},
     iqueue |-> {},
     target |-> [f \in RecFans |-> NoTarget]]

RecInit ==
    /\ \E has_row \in BOOLEAN :
       \E k \in 0..NRecItems :
       \E others \in [2..NRecFans -> SUBSET RecItems] :
          /\ has_row \/ k = 0
          /\ \A f \in 2..(NRecFans - 1) : SetCode(others[f]) <= SetCode(others[f + 1])
          /\ db = RecStore(has_row, [f \in RecFans |-> IF f = 1 THEN 1..k ELSE others[f]])
    /\ now = T0
    /\ crawl = FALSE
    /\ cw = IdleFetch
    /\ gu = IdleFetch
    /\ iw = IdleItem
    /\ rolled = {}
    /\ page = NoPage
    /\ ret = NoCall
    /\ run_state = TRUE
    /\ conn = {}

\* GET /api/get_recommendations?username=..&similar_boost=..
GetRecommendations(username, similar_boost) ==
    /\ \E elements \in RecElements(db, username, similar_boost) :
          LET r == get_user_recommendations(db, username, similar_boost, elements)
          IN ret' = [op |-> "get_user_recommendations", username |-> username,
                     similar_boost |-> similar_boost, kind |-> r.kind, items |-> r.items]
    /\ UNCHANGED <<db, now, crawl, cw, gu, iw, rolled, page, run_state, conn>>

RecNext == \E username \in RequestNames : \E similar_boost \in Boosts :
              GetRecommendations(username, similar_boost)

SpecRec == RecInit /\ [][RecNext]_vars


\* =================================================================== claims
UsernameOf(f) == db.collector[f].username

\* the step is add_target(f) or an update_target(f) of the progress manager
TargetStep(f) ==
    \/ PMTick /\ db.target[f].present
    \/ db.collector[f].present /\ UsernameOf(f) \in RequestNames /\ GetStatus(UsernameOf(f))

\* C1: add_target(fan_id) with no target row and a non-empty stage-1 requirement
\* set R stores and returns stage 1, count_left = count_total = |R|, eta = 2|R|,
\* puts every item of R into the item queue and leaves the collection queue.
C1_AddTargetStage1 ==
    [][\A name \in RequestNames :
          LET f == get_fan_id_for_username(db, name)
              R == get_stage_1_requirements(db, now, f)
              n == Cardinality(R)
          IN (GetStatus(name) /\ ~db.target[f].present /\ R # {}) =>
                /\ db'.target[f] = [present |-> TRUE, stage |-> 1, count_left |-> n,
                                    count_total |-> n, eta |-> 2 * n]
                /\ get_target(db', f) = db'.target[f]
                /\ R \subseteq db'.iqueue
                /\ db'.cqueue = db.cqueue]_vars

\* scenario S1: the first user with all items stale, after add_target
C1_Witness ==
    /\ db.target[1] = [present |-> TRUE, stage |-> 1, count_left |-> NItems,
                       count_total |-> NItems, eta |-> 2 * NItems]
    /\ Items \subseteq db.iqueue
    /\ db.cqueue = {}

\* C2: with both requirement sets empty, update_target of a stage-1 or stage-2
\* target and any add_target leave no target row, and get_target then returns
\* stage 3 with count_left = count_total = eta = 0.
C2_BothEmptyDeletes ==
    [][\A f \in Fans :
          (/\ get_stage_1_requirements(db, now, f) = {}
           /\ get_stage_2_requirements(db, now, f) = {}
           /\ TargetStep(f)) =>
                /\ ~db'.target[f].present
                /\ get_target(db', f).stage = 3
                /\ get_target(db', f).count_left = 0
                /\ get_target(db', f).count_total = 0
                /\ get_target(db', f).eta = 0]_vars

\* scenario S2: without crawl mode, all items of the first user were crawled
\* from the item queue, nothing is required any more and the row is gone
C2_Witness ==
    /\ ~crawl
    /\ \A i \in Items : <<1, i>> \in db.collects /\ db.item[i].last_updated > 0
    /\ get_stage_1_requirements(db, now, 1) = {}
    /\ get_stage_2_requirements(db, now, 1) = {}
    /\ ~db.target[1].present
    /\ get_target(db, 1).stage = 3

\* C3 as stated: no step writes stage 2 for a target while one of its stage-1
\* requirements is pending.
C3_NoStage2WhilePending ==
    [][\A f \in Fans :
          (TargetStep(f) /\ db'.target[f].present /\ db'.target[f].stage = 2) =>
                get_stage_1_requirements(db, now, f) = {}]_vars

\* C3 as amended: a target enters stage 2 (from stage 1 or from no row), and
\* collectors are enqueued, only in a step that found its stage-1 requirements
\* empty.
C3_Stage1BeforeStage2 ==
    [][/\ \A f \in Fans :
            (/\ db'.target[f].present /\ db'.target[f].stage = 2
             /\ ~(db.target[f].present /\ db.target[f].stage = 2)) =>
                  get_stage_1_requirements(db, now, f) = {}
       /\ (db'.cqueue \ db.cqueue # {}) =>
             \E f \in Fans :
                /\ TargetStep(f)
                /\ get_stage_1_requirements(db, now, f) = {}
                /\ db'.target[f].present /\ db'.target[f].stage = 2
                /\ db'.cqueue \ db.cqueue \subseteq get_stage_2_requirements(db, now, f)]_vars

\* the first user's target is in stage 2 and the collectors it needs are queued
C3_Witness ==
    /\ db.target[1].present /\ db.target[1].stage = 2
    /\ get_stage_1_requirements(db, now, 1) = {}
    /\ 2 \in get_stage_2_requirements(db, now, 1)
    /\ 2 \in db.cqueue

\* C4: an upsert that keeps a target row in its stage never lowers count_total:
\* it stores the larger of the stored and the supplied value.
C4_CountTotalMonotone ==
    [][\A f \in Fans :
          (/\ db.target[f].present /\ db'.target[f].present
           /\ db'.target[f].stage = db.target[f].stage
           /\ TargetStep(f)) =>
                /\ db'.target[f].count_total >= db.target[f].count_total
                /\ PMTick => db'.target[f].count_total = db.target[f].count_total
                /\ ~PMTick => db'.target[f].count_total =
                                 Max(db.target[f].count_total, db'.target[f].count_left)]_vars

\* a row whose stored total is above what the last upsert supplied
C4_Witness ==
    \E f \in Fans :
       /\ db.target[f].present
       /\ db.target[f].count_total > db.target[f].count_left
       /\ db.target[f].count_left = Cardinality(get_stage_1_requirements(db, now, f))
       /\ db.target[f].stage = 1

\* freshness as section 3 of the specification defines it
Fresh(last_updated) == last_updated > 0 /\ now - last_updated < 30 * 86400

\* the entity may be returned by get_next_collector / get_next_item
CollectorEligible(d, f) ==
    f \in d.cqueue \/ (crawl /\ SqlStale(now, d.collector[f].last_updated))

ItemEligible(d, i) ==
    i \in d.iqueue \/ (crawl /\ SqlStale(now, d.item[i].last_updated))

\* C5: a fetch that returns success or NotFound makes the worker set the
\* entity's last_updated to now and remove it from its queue; a fresh entity is
\* not queued and is not selected again (collection worker and item worker).
C5_DoneFreshNotQueued ==
    [][/\ ((CWInitialOk \/ CWNextOk \/ CWNotFound) /\ cw'.pc = "idle") =>
             LET f == get_fan_id_for_username(db, cw.name)
             IN /\ db'.collector[f].last_updated = now
                /\ Fresh(db'.collector[f].last_updated)
                /\ f \notin db'.cqueue
       /\ ((IWInitialOk \/ IWNextOk \/ IWNotFound) /\ iw'.pc = "idle") =>
             /\ db'.item[iw.item_id].last_updated = now
             /\ Fresh(db'.item[iw.item_id].last_updated)
             /\ iw.item_id \notin db'.iqueue
       /\ (IWTick /\ db' # db) =>
             LET i == get_next_item(db, now, crawl)[1]
             IN /\ db'.item[i].last_updated = now
                /\ i \notin db'.iqueue
       /\ \A f \in Fans :
             (db'.collector[f].present /\ Fresh(db'.collector[f].last_updated)) =>
                /\ f \notin db'.cqueue
                /\ get_next_collector(db', now, crawl) # <<db'.collector[f].username>>
       /\ \A i \in Items :
             (db'.item[i].present /\ Fresh(db'.item[i].last_updated)) =>
                /\ i \notin db'.iqueue
                /\ get_next_item(db', now, crawl) # <<i>>]_vars

\* the second user was crawled with success and the newest item too; both are
\* marked and out of their queues while the first user's target is pending
C5_Witness ==
    /\ db.collector[2].last_updated = now
    /\ \A i \in Items : RemoteOwns(2, i) => <<2, i>> \in db.collects
    /\ 2 \notin db.cqueue
    /\ db.item[NItems].last_updated = now
    /\ \A f \in Fans : <<NItems, f>> \in db.collected_by
    /\ NItems \notin db.iqueue
    /\ db.target[1].present

\* C6: on RateLimit the worker deletes every edge of the entity's side and only
\* those, leaves last_updated and the queue as they were, and the entity can
\* still be selected.
C6_RateLimitRollsBack ==
    [][/\ CWRateLimit =>
             LET f == get_fan_id_for_username(db, cw.name)
             IN /\ db'.collects = {e \in db.collects : e[1] # f}
                /\ db'.collected_by = db.collected_by
                /\ db'.collector = db.collector
                /\ db'.cqueue = db.cqueue
                /\ CollectorEligible(db', f)
       /\ IWRateLimit =>
             /\ db'.collected_by = {e \in db.collected_by : e[1] # iw.item_id}
             /\ db'.collects = db.collects
             /\ db'.item = db.item
             /\ db'.iqueue = db.iqueue
             /\ ItemEligible(db', iw.item_id)]_vars

\* the second user was rolled back and is selected again, and a queued item
\* sleeps after its rollback, still queued, unmarked and without edges
C6_Witness ==
    /\ cw.pc = "initial" /\ cw.name = USERNAMES[2]
    /\ 2 \in rolled
    /\ db.collector[2].last_updated = 0
    /\ \A e \in db.collects : e[1] # 2
    /\ \E i \in Items :
          /\ iw.pc = "sleep" /\ iw.item_id = i
          /\ i \in db.iqueue
          /\ db.item[i].last_updated = 0
          /\ \A e \in db.collected_by : e[1] # i

\* C7: the first crawl of a collector that succeeds after a rate-limit
\* rollback leaves the edge of every item of the remote collection stored (it
\* paginated through all remote pages).
C7_RecrawlComplete ==
    [][\A f \in Fans :
          (f \in rolled /\ f \notin rolled') =>
             \A i \in Items : RemoteOwns(f, i) => <<f, i>> \in db'.collects]_vars

\* C8: an item whose URL is not on a Bandcamp host (scenario S6) is handled
\* without a request: the worker stays between ticks, the item is marked done
\* and leaves the queue, no collected_by edge changes, and no request is ever
\* in flight for such an item.
C8_UnreachableUrl ==
    [][/\ \A i \in Items :
             (/\ IWTick
              /\ get_next_item(db, now, crawl) = <<i>>
              /\ db.item[i].present
              /\ db.item[i].item_url = RemoteUrl(1)) =>
                   /\ iw.pc = "idle" /\ iw' = iw
                   /\ db'.item[i].last_updated = now
                   /\ i \notin db'.iqueue
                   /\ db'.collected_by = db.collected_by
                   /\ db'.collects = db.collects
       /\ iw'.pc \in {"initial", "next"} =>
             db'.item[iw'.item_id].item_url # RemoteUrl(1)]_vars

\* the custom-domain item of the first user's target was marked done and left
\* the queue without any edge, while the other items are still queued
C8_Witness ==
    /\ db.item[1].present /\ db.item[1].item_url = RemoteUrl(1)
    /\ ~BANDCAMP_REGEX(db.item[1].item_url)
    /\ db.item[1].last_updated = now
    /\ db.target[1].present /\ db.target[1].stage = 1
    /\ db.iqueue = Items \ {1}
    /\ \A e \in db.collected_by : e[1] # 1

\* after a failed crawl the store is as the failure left it: the entity is
\* still eligible for selection, its last_updated and queue row are unchanged,
\* and the edges of the pages processed before the failure are kept
ErrorKeepsPartialWork ==
    /\ CWError =>
          LET f == get_fan_id_for_username(db, cw.name)
          IN /\ db' = db
             /\ CollectorEligible(db', f)
             /\ cw.pc = "next" =>
                   \A k \in 1..Len(RemoteInitialResult(cw.name).collection) :
                      CollectsEdge(f, RemoteInitialResult(cw.name).collection[k])
                          \in db'.collects
    /\ IWError =>
          /\ db' = db
          /\ ItemEligible(db', iw.item_id)
          /\ iw.pc = "next" =>
                \A k \in 1..Len(RemoteCollectorsData(iw.item_id).thumbs) :
                   <<iw.item_id, RemoteCollectorsData(iw.item_id).thumbs[k].fan_id>>
                       \in db'.collected_by
    /\ IWInitialPropsError =>
          /\ db'.item = db.item
          /\ db'.iqueue = db.iqueue
          /\ db.collected_by \subseteq db'.collected_by
          /\ ItemEligible(db', iw.item_id)
          /\ \A k \in 1..Len(RemoteCollectorsData(iw.item_id).thumbs) :
                <<iw.item_id, RemoteCollectorsData(iw.item_id).thumbs[k].fan_id>>
                    \in db'.collected_by

\* the failed entity is the one that the next tick selects
RetriedNextTick ==
    /\ CWError => get_next_collector(db', now, crawl) = <<cw.name>>
    /\ (IWError \/ IWInitialPropsError) =>
          get_next_item(db', now, crawl) = <<iw.item_id>>

\* C9 as stated: after a transient, parse, page or serialization error nothing
\* is changed, the partial edges are kept, and the entity is attempted again
\* on the next tick.
C9_RetriedNextTick == [][ErrorKeepsPartialWork /\ RetriedNextTick]_vars

\* C9 as amended: after such an error the entity stays queued and eligible,
\* last_updated is unchanged and the partial edges are kept; which entity the
\* next tick attempts is left to the lowest-id rule of the selection.
C9_ErrorKeepsPartialWork == [][ErrorKeepsPartialWork]_vars

\* between two ticks the newest item, still queued and unmarked, holds the
\* edges of its first page and not the edge of its second page
C9_Witness ==
    /\ iw.pc = "idle"
    /\ NItems \in db.iqueue
    /\ db.item[NItems].last_updated = 0
    /\ \A k \in 1..PageSize :
          <<NItems, RemoteThumbs(NItems)[k].fan_id>> \in db.collected_by
    /\ <<NItems, RemoteThumbs(NItems)[PageSize + 1].fan_id>> \notin db.collected_by

AllStored(p) == Len(p.stored) > 0 /\ \A k \in 1..Len(p.stored) : p.stored[k]

NoneStored(p) == \A k \in 1..Len(p.stored) : ~p.stored[k]

SomeStored(p) == \E k \in 1..Len(p.stored) : p.stored[k]

SomeNew(p) == \E k \in 1..Len(p.stored) : ~p.stored[k]

C11_EdgeIdempotence ==
    [][/\ ret'.op = "add_item_for_collector" =>
             /\ ret'.res = (ret.collects_n[<<ret'.fan_id, ret'.item_id>>] > 0)
             /\ <<ret'.fan_id, ret'.item_id>> \in db'.collects
       /\ ret'.op = "add_collector_for_item" =>
             /\ ret'.res = (ret.collected_by_n[<<ret'.item_id, ret'.fan_id>>] > 0)
             /\ <<ret'.item_id, ret'.fan_id>> \in db'.collected_by
       /\ \A e \in StoreFans \X StoreItems : (ret'.collects_n[e] > 0) = (e \in db'.collects)
       /\ \A e \in StoreItems \X StoreFans :
             (ret'.collected_by_n[e] > 0) = (e \in db'.collected_by)]_vars

\* a pair inserted repeatedly into collects, just reported as present, while a
\* collected_by pair has been inserted once since the removal of its item's edges
C11_Witness ==
    /\ ret.op = "add_item_for_collector" /\ ret.res
    /\ ret.collects_n[<<ret.fan_id, ret.item_id>>] = MaxInserts
    /\ \E e \in StoreItems \X StoreFans :
          ret.collected_by_n[e] = 1 /\ e \in db.collected_by

\* the last call was get_user_recommendations and it returned a list
RecReturned == ret.op = "get_user_recommendations" /\ ret.kind = "Ok"

\* the fan the last call asked about, and the set F of its own items
RecTarget == CHOOSE f \in RecFans : USERNAMES[f] = ret.username
RecForbidden == {i \in RecItems : <<RecTarget, i>> \in db.collects}

\* the overlap weight s^b of fan u, and the score the specification gives to
\* item i: the sum of s^b over the other fans of fs that collect i with s^b > 1
RecWeight(u) ==
    Pow(Cardinality({i \in RecForbidden : <<u, i>> \in db.collects}), ret.similar_boost)

RECURSIVE RecScore(_, _)
RecScore(fs, i) ==
    IF fs = {} THEN 0
    ELSE LET u == CHOOSE x \in fs : TRUE
         IN (IF u # RecTarget /\ <<u, i>> \in db.collects /\ RecWeight(u) > 1
             THEN RecWeight(u) ELSE 0) + RecScore(fs \ {u}, i)

\* the store of the example: u = {1,2,3}, a = {1,2,4}, b = {1,2,3,5}, c = {4,5}
RecExample ==
    db.collects = {e \in RecFans \X RecItems :
                      e[2] \in <<{1, 2, 3}, {1, 2, 4}, {1, 2, 3, 5}, {4, 5}>>[e[1]]}

\* C12: recommender exclusion.  No item of a returned list is in the set of
\* items that the requested user collects.
C12_Exclusion ==
    RecReturned => \A k \in DOMAIN ret.items : ret.items[k].item_id \notin RecForbidden

\* a returned item that fans sharing items with the requested user collect,
\* while those fans collect items of the requested user too
C12_Witness ==
    /\ RecReturned /\ Len(ret.items) > 0 /\ Cardinality(RecForbidden) = 3
    /\ \E u \in RecFans \ {RecTarget} :
          /\ <<u, ret.items[1].item_id>> \in db.collects
          /\ RecForbidden \subseteq {i \in RecItems : <<u, i>> \in db.collects}

\* C13: recommender scoring.  The score of every returned item i is the sum
\* of s^b over the other users that collect i and whose overlap s with the
\* requested user's set has s^b > 1; an item that only users with s^b <= 1
\* collect is not returned.
C13_Scoring ==
    RecReturned =>
        \A k \in DOMAIN ret.items :
            /\ ret.items[k].score = RecScore(RecFans, ret.items[k].item_id)
            /\ \E u \in RecFans \ {RecTarget} :
                  <<u, ret.items[k].item_id>> \in db.collects /\ RecWeight(u) > 1

\* the example: boost 2 gives item 5 with score 9, then item 4 with score 4
C13_Witness ==
    /\ RecReturned /\ RecExample /\ ret.similar_boost = 2
    /\ ret.items = <<[item_id |-> 5, score |-> 9], [item_id |-> 4, score |-> 4]>>

\* C14: recommender shape.  A returned list has at most TakeCount items (the
\* 50 of the code), every score is positive, the scores do not increase down
\* the list, and no item left out has a higher score than a returned one.
C14_Shape ==
    RecReturned =>
        /\ Len(ret.items) <= TakeCount
        /\ \A k \in DOMAIN ret.items : ret.items[k].score > 0
        /\ \A k \in 1..(Len(ret.items) - 1) : ret.items[k].score >= ret.items[k + 1].score
        /\ \A i \in RecItems \ RecForbidden :
              (\A k \in DOMAIN ret.items : ret.items[k].item_id # i) =>
                  /\ RecScore(RecFans, i) > 0 => Len(ret.items) = TakeCount
                  /\ \A k \in DOMAIN ret.items : RecScore(RecFans, i) <= ret.items[k].score

\* more items have a score than are returned, and the one left out has a
\* lower score than the last one returned
C14_Witness ==
    /\ RecReturned /\ Len(ret.items) = TakeCount
    /\ ret.items[1].score > ret.items[TakeCount].score
    /\ \E i \in RecItems \ RecForbidden :
          /\ \A k \in DOMAIN ret.items : ret.items[k].item_id # i
          /\ RecScore(RecFans, i) > 0
          /\ RecScore(RecFans, i) < ret.items[TakeCount].score

\* C15: get_user_recommendations fails with NotFound when the username has no
\* collector row, and for a username with a collector row it returns a list
\* or an error value; it never aborts.
C15_NotFoundOrResult ==
    ret.op = "get_user_recommendations" =>
        /\ (ret.kind = "NotFoundError") = ~db.collector[RecTarget].present
        /\ ret.kind # "panic"

\* C16: upsert frame effect.  An upsert of a collector or of an item whose row
\* exists changes nothing of the rows but that row's token, and changes the
\* token only when the stored token is null: a stored token is never replaced,
\* and last_updated and the other attributes of the row stay as they are.
C16_UpsertFrame ==
    [][/\ (ret'.op \in {"add_collector", "add_collector_for_item"}
           /\ db.collector[ret'.fan_id].present) =>
             /\ db'.collector = [db.collector EXCEPT ![ret'.fan_id].token =
                                    db'.collector[ret'.fan_id].token]
             /\ db.collector[ret'.fan_id].token # NULL =>
                   db'.collector[ret'.fan_id].token = db.collector[ret'.fan_id].token
             /\ db'.item = db.item
       /\ (ret'.op = "add_item_for_collector" /\ db.item[ret'.item_id].present) =>
             /\ db'.item = [db.item EXCEPT ![ret'.item_id].token =
                               db'.item[ret'.item_id].token]
             /\ db.item[ret'.item_id].token # NULL =>
                   db'.item[ret'.item_id].token = db.item[ret'.item_id].token
             /\ db'.collector = db.collector]_vars

\* a collector that was crawled to completion and has a token was upserted
\* with no token, and an item with a token was upserted by a second fan
C16_Witness ==
    /\ ret.op = "add_collector" /\ ret.token = NULL
    /\ db.collector[ret.fan_id].token # NULL
    /\ db.collector[ret.fan_id].last_updated > 0
    /\ \E i \in StoreItems :
          /\ db.item[i].token # NULL /\ db.item[i].last_updated > 0
          /\ \A f \in StoreFans : <<f, i>> \in db.collects

\* C17: freshness window.  collector_present_and_recent(name) (resp.
\* item_present_and_recent(id)) is true iff a row exists and
\* now - last_updated < 30 days; a missing row and a row with last_updated = 0
\* are not fresh.
C17_FreshnessWindow ==
    /\ \A f \in Fans :
          collector_present_and_recent(db, now, USERNAMES[f])
              = (db.collector[f].present /\ Fresh(db.collector[f].last_updated))
    /\ \A i \in Items :
          item_present_and_recent(db, now, i)
              = (db.item[i].present /\ Fresh(db.item[i].last_updated))

\* C18: referential invariant I1.  In every reachable store every collects
\* edge and every collected_by edge has the collector row of its fan and the
\* item row of its item (for collects, the row of the album-collapsed id).
C18_Referential ==
    /\ \A e \in db.collects :
          /\ e[1] \in Fans /\ db.collector[e[1]].present
          /\ e[2] \in Items /\ db.item[e[2]].present
    /\ \A e \in db.collected_by :
          /\ e[1] \in Items /\ db.item[e[1]].present
          /\ e[2] \in Fans /\ db.collector[e[2]].present

\* edges of both relations are stored, among them edges of the fan whose
\* entries are tracks of albums, after a rollback and with a target row
C18_Witness ==
    /\ \E i \in Items : <<2, i>> \in db.collects
    /\ \E i \in Items : <<i, 3>> \in db.collected_by
    /\ rolled # {}
    /\ \E f \in Fans : db.target[f].present

\* the step changes no last_updated
NoneMarked ==
    /\ \A f \in Fans : db'.collector[f].last_updated = db.collector[f].last_updated
    /\ \A i \in Items : db'.item[i].last_updated = db.item[i].last_updated

\* C19: invariant I3.  The last_updated of a collector or item changes only in
\* the step in which the worker's crawl of that very entity ends with success
\* or with the NotFound verdict, and it then becomes the positive time of that
\* step; a step that ends an attempt in RateLimit or in a transient, parse or
\* page error changes no last_updated, and neither does any step of the forced
\* user fetch, of the progress manager or of a status request.
C19_MarkedOnlyOnCompletion ==
    [][/\ \A f \in Fans :
            db'.collector[f].last_updated # db.collector[f].last_updated =>
                /\ db'.collector[f].last_updated = now /\ now > 0
                /\ cw.pc \in {"initial", "next"} /\ cw.name = db.collector[f].username
                /\ cw' = IdleFetch
                /\ CWInitialOk \/ CWNextOk \/ CWNotFound
       /\ \A i \in Items :
            db'.item[i].last_updated # db.item[i].last_updated =>
                /\ db'.item[i].last_updated = now /\ now > 0
                /\ \/ /\ iw.pc \in {"initial", "next"} /\ iw.item_id = i
                      /\ iw' = IdleItem
                      /\ IWInitialOk \/ IWNextOk \/ IWNotFound
                   \/ /\ IWTick /\ get_next_item(db, now, crawl) = <<i>>
                      /\ ~BANDCAMP_REGEX(db.item[i].item_url)
       /\ (CWRateLimit \/ CWError \/ CWWake \/ IWRateLimit \/ IWError \/ IWWake
           \/ IWInitialPropsError \/ GUInitialOk \/ GUNextOk \/ GUError \/ PMTick
           \/ \E name \in RequestNames : GetStatus(name)) => NoneMarked]_vars

\* a collector and an item are marked, and a collector that was rolled back
\* after a rate limit is still unmarked
C19_Witness ==
    /\ \E f \in Fans : db.collector[f].present /\ db.collector[f].last_updated > 0
    /\ \E i \in Items : db.item[i].present /\ db.item[i].last_updated > 0
    /\ \E g \in rolled : db.collector[g].last_updated = 0

C21_CountLeftWithinTotal ==
    \A f \in Fans : db.target[f].present =>
        db.target[f].count_left <= db.target[f].count_total

\* C21, the step half: what an update_target that keeps the stage stores
C21_UpdateStoresMax ==
    [][PMTick =>
        \A f \in Fans :
            (db.target[f].present /\ db'.target[f].present
             /\ db'.target[f].stage = db.target[f].stage) =>
                /\ db'.target[f].count_left =
                     Cardinality(IF db.target[f].stage = 1
                                 THEN get_stage_1_requirements(db, now, f)
                                 ELSE get_stage_2_requirements(db, now, f))
                /\ db'.target[f].count_total =
                     Max(db.target[f].count_total, db'.target[f].count_left)]_vars

\* the step ends a crawl of the collection worker with success
CWCompletes == (CWInitialOk \/ CWNextOk) /\ cw'.pc = "idle"

\* C22: after an error in the middle of a collector's pagination the partial
\* edges are kept and the retry fetches the pages the failed attempt had not
\* reached: a crawl that then succeeds, with no other fetch of the collection
\* in progress, leaves the collector with the edges of all remote pages.
C22_RetryReachesAllPages ==
    [][(CWCompletes /\ gu.pc = "idle") =>
          LET f == get_fan_id_for_username(db', cw.name)
          IN \A i \in Items : RemoteOwns(f, i) =>
                CollectsEdge(f, RemoteEntry(f, i)) \in db'.collects]_vars

\* C23: the done signal of a page of the collection paginator (initial page or
\* later page) is true iff some insert of the page reported its edge as already
\* present, wherever that item stands in the page and in whatever order the
\* page is processed; with more pages reported, the paginator goes on iff the
\* signal is false.
C23_DoneIffAnyPresent ==
    (page.paginator = "collection" /\ page.more) =>
        (page.continued <=> ~SomeStored(page))

\* C24: get_stage_2_requirements(fan_id) is the set of the users other than
\* fan_id with a stale collector row who are recorded as collectors of at
\* least two items that fan_id collects; fan_id itself is never in it.
C24_SelfNotRequired ==
    \A f \in Fans :
          get_stage_2_requirements(db, now, f) =
             {g \in Fans \ {f} :
                 /\ db.collector[g].present
                 /\ SqlStale(now, db.collector[g].last_updated)
                 /\ Cardinality({i \in Items : <<i, g>> \in db.collected_by
                                               /\ <<f, i>> \in db.collects}) >= 2}

\* C25: a tick of the progress manager leaves the item queue unchanged, and it
\* adds to the collection queue only the stage-2 requirements of targets that
\* it moves from stage 1 into stage 2: an update_target whose target stays in
\* its stage leaves both work queues unchanged.
C25_UpdateLeavesQueues ==
    [][PMTick =>
          /\ db'.iqueue = db.iqueue
          /\ db'.cqueue =
               db.cqueue \cup
               UNION {get_stage_2_requirements(db, now, f) :
                         f \in {g \in Fans : /\ db.target[g].present
                                             /\ db.target[g].stage = 1
                                             /\ db'.target[g].present
                                             /\ db'.target[g].stage = 2}}
          /\ (\A f \in Fans : db.target[f].present =>
                 /\ db'.target[f].present
                 /\ db'.target[f].stage = db.target[f].stage)
             => db'.cqueue = db.cqueue]_vars

\* a stage-1 target updated after its requirements grew: the row counts more
\* items left than it ever had in total, and the new item was not enqueued
C25_Witness ==
    /\ db.target[1].present /\ db.target[1].stage = 1
    /\ db.target[1].count_left > db.target[1].count_total
    /\ get_stage_1_requirements(db, now, 1) \ db.iqueue # {}

\* the lowest id of a non-empty set of ids
LowestId(S) == CHOOSE x \in S : \A y \in S : x <= y

StaleCollectors == {f \in Fans : db.collector[f].present
                                 /\ SqlStale(now, db.collector[f].last_updated)}

StaleItems == {i \in Items : db.item[i].present
                             /\ SqlStale(now, db.item[i].last_updated)}

C27_NoConnAcrossAwait == conn = {}

\* no request is in flight, neither worker has anything to dequeue and a tick
\* of the progress manager changes nothing: from here on the store changes
\* only when a client sends a request
Quiescent ==
    /\ cw.pc = "idle" /\ get_next_collector(db, now, crawl) = <<>>
    /\ iw.pc = "idle" /\ get_next_item(db, now, crawl) = <<>>
    /\ gu.pc = "idle"
    /\ UpdateTargets(db, now, get_targets(db)) = db

\* C28: with the workers and the progress manager ticking and every fetch ending
\* in success or NotFound, every registered target is eventually deleted
\* without a further add_target; so when the background tasks have nothing
\* left to do, no target row is left.
C28_NoTargetLeftBehind == Quiescent => get_targets(db) = <<>>

\* ------------------------------------------------- the item worker, fairly run
\* The item worker with the forced user fetch, status requests and the progress
\* manager filling its queue.  The interval timer makes the worker take its
\* next tick, and a request in flight is answered: with a page, with 404, or
\* with a network, page, serialization or page-properties error.
IWAnswer == IWInitialOk \/ IWInitialPropsError \/ IWNextOk \/ IWNotFound \/ IWError

StarveNext ==
    \/ GUInitialOk \/ GUNextOk
    \/ IWTick \/ IWTickNone \/ IWAnswer
    \/ PMTick
    \/ \E name \in RequestNames : GetStatus(name)

StarveFairness == WF_vars(IWTick) /\ WF_vars(IWAnswer)

SpecStarve == Init /\ [][StarveNext]_vars /\ StarveFairness

\* the item with the lowest id that the worker sends requests for
FailingItem == LowestId({i \in Items : BANDCAMP_REGEX(RemoteUrl(i))})

\* C29: an entity whose fetch fails on every attempt, and so stays queued,
\* does not keep the worker from the queued entities with higher ids: a queued
\* item with a higher id is eventually removed from the queue, unless the
\* fetch of the lower one succeeds and it leaves the queue itself.
C29_NoStarvation ==
    \A i \in Items :
        (i > FailingItem /\ i \in db.iqueue)
            ~> (i \notin db.iqueue \/ FailingItem \notin db.iqueue)

\* C30 as stated: a target row that shows stage 2 is never rewritten as stage 1.
C30_StageNeverDecreases ==
    [][\A f \in Fans :
          (db.target[f].present /\ db.target[f].stage = 2 /\ db'.target[f].present)
             => db'.target[f].stage = 2]_vars

\* C30 as amended: the progress manager never lowers the stage of a target; a
\* row in stage 2 is rewritten as stage 1 only by add_target, exactly when the
\* fan has pending stage-1 requirements, which are then all in the item queue.
C30_StageLoweredOnlyByAddTarget ==
    [][\A f \in Fans :
          (db.target[f].present /\ db.target[f].stage = 2) =>
             /\ PMTick => (db'.target[f].present => db'.target[f].stage = 2)
             /\ (db'.target[f].present /\ db'.target[f].stage = 1) =>
                   /\ UsernameOf(f) \in RequestNames
                   /\ GetStatus(UsernameOf(f))
                   /\ get_stage_1_requirements(db, now, f) # {}
                   /\ get_stage_1_requirements(db, now, f) \subseteq db'.iqueue
             /\ (/\ UsernameOf(f) \in RequestNames
                 /\ GetStatus(UsernameOf(f))
                 /\ get_stage_1_requirements(db, now, f) # {}) =>
                   db'.target[f].present /\ db'.target[f].stage = 1]_vars

\* the first user's target is back in stage 1 with a queued item, while a
\* collector enqueued when it entered stage 2 is still queued
C30_Witness ==
    /\ db.target[1].present /\ db.target[1].stage = 1
    /\ get_stage_1_requirements(db, now, 1) \cap db.iqueue # {}
    /\ db.cqueue \cap get_stage_2_requirements(db, now, 1) # {}

\* C31: crawl completeness.  Whenever the collection worker marks a collector
\* done at the end of a crawl that fetched the remote, collects holds the edge
\* to the album-collapsed id of every item of the collector's remote
\* collection, whatever the forced fetch of get_user is doing to the same
\* collector and whatever earlier attempts left behind.
C31_CrawlComplete ==
    [][CWCompletes =>
          LET f == get_fan_id_for_username(db', cw.name)
          IN /\ db'.collector[f].last_updated = now
             /\ \A i \in Items : RemoteOwns(f, i) =>
                   CollectsEdge(f, RemoteEntry(f, i)) \in db'.collects]_vars

\* C32: a crawl of one entity terminates: every next-page request carries a
\* token strictly older (smaller) than the token of the request before it, so
\* no page is requested twice, also when a page that reports more pages
\* holds no entries.
C32_TokenStrictlyOlder ==
    [][/\ (PagesGUNext /\ gu'.pc = "next" /\ page'.stored = <<>>)
             => gu'.token < gu.token
       /\ (PagesIWNext /\ iw'.pc = "next" /\ page'.stored = <<>>)
             => iw'.token < iw.token]_vars

====
